---- MODULE Spec2Model ----
(***************************************************************************)
(* The event-queue worker of the Strava ingestion service.                 *)
(*                                                                         *)
(* The database tables (webhook_events, tokens, activities,                *)
(* activity_streams, ride_analysis, progress_summaries) are the shared     *)
(* state.  Each worker process runs the loop of src/src/worker.py; one     *)
(* action of the model is one database-visible step of that loop.  The     *)
(* webhook receiver and the backfill endpoint of src/src/webhook_server.py *)
(* run concurrently with the workers.  The Strava API, the OAuth endpoint, *)
(* the analyzer, the renderers and the summarizer are external: every      *)
(* outcome they can produce is a nondeterministic choice.                  *)
(***************************************************************************)
EXTENDS Integers, Sequences, FiniteSets, TLC

(* ------------------------------- bounds -------------------------------- *)

NumWorkers == 2      \* worker processes polling the same queue (SpecWorkers)
MaxEvents == 1       \* rows ever inserted into webhook_events
NumAthletes == 2     \* distinct owner_id values
NumObjects == 1      \* distinct object_id values
MaxClock == 1        \* largest value of the wall clock
MaxIssued == 2       \* token pairs the OAuth endpoint issues
MaxFetch == 2        \* successful activity fetches the API serves
MaxDeliveries == 2   \* rows inserted into webhook_events (SpecRecovery, SpecAccounts)
MaxReports == 3      \* analysis records passed to the summarizer (SpecTruncate)
MaxTail == 2         \* characters of an activity name after its run of letters (SpecReports)
MaxFiles == 2        \* files in the report directory (SpecReports)
MaxIntervals == 2    \* heartbeat intervals the clock runs for (SpecHeartbeat)
MaxResponses == 3    \* responses the API has ready for one call of _request (SpecRequest)

Workers == 1..NumWorkers
Athletes == 1..NumAthletes
Objects == 1..NumObjects

(* -------------------------- program constants -------------------------- *)

TOKEN_REFRESH_SKEW_SECONDS == 60

\* worker.py:79, WORKER_HEARTBEAT_SECONDS
HEARTBEAT_SECONDS == 60

\* worker.py:234, the sport types that are analyzed
RideTypes == {"Ride", "VirtualRide", "EBikeRide"}

\* sport_type values the API returns in this model
SportTypes == {"Ride", "Run"}

\* str(e) of the exceptions that reach the handler at worker.py:360
NoTokenError == "No OAuth token for athlete"
RefreshError == "refresh_access_token: HTTPError"
FetchError == "get_activity: HTTPError"
UnauthorizedError == "get_activity: 401 Unauthorized"
PersistError == "INSERT: OperationalError"
HardErrors == {NoTokenError, RefreshError, FetchError, UnauthorizedError, PersistError}

\* the notes worker.py:289 and worker.py:295 leave in last_error
ReportGenerated == "report_generated: md"
ReportFailed == "report_generation_failed: error"

NULL == "NULL"       \* SQL NULL

\* SQL NULL in the integer column athlete_id (db.py:286 and 415, the default
\* None of the parameter); athlete ids are positive
NoAthlete == 0

\* a variant of Put used to test C13: an insert that keeps the row already stored under the key
Put_IgnoreConflict(table, key, row) ==
  [k \in DOMAIN table \cup {key} |-> IF k \in DOMAIN table THEN table[k] ELSE row]

\* a table with a primary key is a function from the keys present to the rows
EmptyTable == [k \in {} |-> NULL]
Put(table, key, row) ==
  [k \in DOMAIN table \cup {key} |-> IF k = key THEN row ELSE table[k]]

\* the locals tok and act before the worker has assigned them
NoTok == [access_token |-> -1, refresh_token |-> -1, expires_at |-> -1]
NoAct == [id |-> 0, sport_type |-> NULL]

VARIABLES
  events,              \* webhook_events: id -> row (the sequence index is the id)
  tokens,              \* tokens: athlete_id -> row
  activities,          \* activities: activity_id -> row
  activity_streams,    \* activity_streams: activity_id -> streams
  ride_analysis,       \* ride_analysis: activity_id -> row
  progress_summaries,  \* progress_summaries: activity_id -> row
  now,                 \* time.time()
  issued,              \* token pairs the OAuth endpoint has issued
  fetched,             \* fetches the API has served
  cfg,                 \* the capability flags resolved at worker start-up
  wk,                  \* per worker: position in the loop and its locals
  script,              \* the refresh_tokens script: position and locals
  files,               \* the report directory: file name -> what it was written from
  summ,                \* the progress summarizer: its input and its prompt text
  beat,                \* per worker: _last_heartbeat
  req                  \* one call of StravaClient._request: position and locals

vars == <<events, tokens, activities, activity_streams, ride_analysis,
          progress_summaries, now, issued, fetched, cfg, wk, script, files, summ,
          beat, req>>

\* what the steps that handle an event and the web endpoints do not touch
aside == <<script, files, summ, beat, req>>

db == <<events, tokens, activities, activity_streams, ride_analysis, progress_summaries>>

(* ------------------------------- helpers ------------------------------- *)

EventIds == 1..Len(events)

\* Deliberately wrong variants of the definitions below; each is substituted
\* for the definition it is named after to show that a property depends on it.

\* a refresh test that misses the boundary expires_at = now + skew
NeedsRefresh_Strict(tok, now_ts) == tok.expires_at < now_ts + TOKEN_REFRESH_SKEW_SECONDS

\* an analysis branch taken whatever the sport_type
AnalysisRuns_AnySport(c, act) == c.ai

\* a finalization that leaves the status as it is
DoneUpdate_Skipped(evs, id) == evs

\* a failure update that drops the message
FailedUpdate_NoMessage(evs, id, msg) == [evs EXCEPT ![id].status = "failed"]

\* a reset of the processing rows of every athlete
ResetUpdate_AnyOwner(evs, athlete) ==
  [i \in 1..Len(evs) |->
     IF evs[i].status = "processing"
     THEN [evs[i] EXCEPT !.status = "queued"]
     ELSE evs[i]]

\* a refresh that is tried again after it failed
AfterRefresh_Retry(pc, res) ==
  IF res = "ok" THEN (IF pc = "refresh1" THEN "fetch" ELSE "refetch") ELSE pc

\* a retry on every failure of the first fetch
AfterFirstFetch_RetryAny(res) == IF res = "ok" THEN "persist" ELSE "refresh2"

\* an analysis exception that reaches the outer handler
AfterAnalysis_Raises(res) == IF res = "ok" THEN "render" ELSE "except"

\* a render exception that reaches the outer handler
AfterRender_Raises(c, res) ==
  IF res # "ok" THEN "except" ELSE IF c.summary THEN "summarize" ELSE "finalize"

\* a summary exception that reaches the outer handler
AfterSummary_Raises(res) == IF res = "ok" THEN "finalize" ELSE "except"

\* worker.py:162, the rows SELECT ... WHERE status='queued' may return
\* (LIMIT 1 without ORDER BY: the row is the storage engine's choice)
QueuedIds(evs) == {i \in 1..Len(evs) : evs[i].status = "queued"}

\* worker.py:185
NeedsRefresh(tok, now_ts) == tok.expires_at <= now_ts + TOKEN_REFRESH_SKEW_SECONDS

\* worker.py:234, the sport_type test
IsRide(act) == act.sport_type \in RideTypes

\* worker.py:234, whether the analysis branch is taken
AnalysisRuns(c, act) == c.ai /\ IsRide(act)

\* worker.py:173, UPDATE webhook_events SET status='processing' WHERE id=?
ClaimUpdate(evs, id) == [evs EXCEPT ![id].status = "processing"]

\* worker.py:357, UPDATE webhook_events SET status='done' WHERE id=?
DoneUpdate(evs, id) == [evs EXCEPT ![id].status = "done"]

\* worker.py:361, UPDATE webhook_events SET status='failed', last_error=? WHERE id=?
FailedUpdate(evs, id, msg) ==
  [evs EXCEPT ![id].status = "failed", ![id].last_error = msg]

\* worker.py:288 and 299, UPDATE webhook_events SET last_error=? WHERE id=?
NoteUpdate(evs, id, msg) == [evs EXCEPT ![id].last_error = msg]

\* webhook_server.py:241, UPDATE ... SET status='queued' WHERE status='processing' AND owner_id=?
ResetUpdate(evs, athlete) ==
  [i \in 1..Len(evs) |->
     IF evs[i].status = "processing" /\ evs[i].owner_id = athlete
     THEN [evs[i] EXCEPT !.status = "queued"]
     ELSE evs[i]]

\* db.py:243, upsert_tokens
UpsertTokens(toks, athlete, access, refresh, expires) ==
  Put(toks, athlete,
      [access_token |-> access, refresh_token |-> refresh, expires_at |-> expires])

\* the expires_at the OAuth endpoint returns: a newly issued pair outlives
\* the skew window for as long as the model's clock runs
IssuedExpiries(t) == {TOKEN_REFRESH_SKEW_SECONDS + MaxClock + 1}

\* the locals of a worker that has not picked an event yet; calls is the
\* record of the external calls made for the current event
Idle ==
  [pc |-> "poll", ev |-> 0, tok |-> NoTok, now_ts |-> 0, access |-> 0,
   act |-> NoAct, err |-> NULL, pend |-> FALSE, calls |-> <<>>, soft |-> {}]

Owner(w) == events[wk[w].ev].owner_id
Object(w) == events[wk[w].ev].object_id

Step(w, r) == wk' = [wk EXCEPT ![w] = r]

(* ------------------------------ initially ------------------------------ *)

\* refresh_tokens.py: the script is not running
ScriptIdle == [pc |-> "idle", athlete |-> 0, pair |-> -1]

\* strava_client.py:21: _request is not being called; server is the sequence
\* of status codes the API will answer with, r the response in hand
NoRequest ==
  [pc |-> "idle", server |-> <<>>, sent |-> 0, slept |-> 0, r |-> 0,
   result |-> NULL]

\* progress_summarizer.py: summarize_progress has not been called
NoSummary ==
  [analyses |-> <<>>, max_chars |-> 0, text |-> <<>>, called |-> FALSE,
   raised |-> FALSE]

\* the credential row of an athlete who authorized before the workers
\* started (webhook_server.py:161); athlete 1 has one, the others have none
InitialTokenRows ==
  {[access_token |-> 0, refresh_token |-> 0, expires_at |-> e] :
     e \in {TOKEN_REFRESH_SKEW_SECONDS, TOKEN_REFRESH_SKEW_SECONDS + 1,
            TOKEN_REFRESH_SKEW_SECONDS + MaxClock + 1}}

\* worker.py:85, 95, 103: the capabilities resolved at start-up
Configs ==
  {[ai |-> TRUE, summary |-> TRUE, pdf |-> TRUE],
   [ai |-> TRUE, summary |-> FALSE, pdf |-> FALSE],
   [ai |-> FALSE, summary |-> TRUE, pdf |-> TRUE]}

Init ==
  /\ events = <<>>
  /\ \E row \in InitialTokenRows :
       tokens = Put(EmptyTable, 1, row)
  /\ activities = EmptyTable
  /\ activity_streams = EmptyTable
  /\ ride_analysis = EmptyTable
  /\ progress_summaries = EmptyTable
  /\ now = 0
  /\ issued = 0
  /\ fetched = 0
  /\ cfg \in Configs
  /\ wk = [w \in Workers |-> Idle]
  /\ script = ScriptIdle
  /\ files = EmptyTable
  /\ summ = NoSummary
  /\ beat = [w \in Workers |-> 0]
  /\ req = NoRequest

(* ------------------------- the webhook receiver ------------------------ *)

\* webhook_server.py:201, receive: INSERT INTO webhook_events, status
\* defaults to 'queued' (db.py:194)
Receive(owner, object) ==
  /\ events' = Append(events,
       [owner_id |-> owner, object_id |-> object,
        status |-> "queued", last_error |-> NULL])
  /\ UNCHANGED <<tokens, activities, activity_streams, ride_analysis,
                 progress_summaries, now, issued, fetched, cfg, wk, aside>>

\* time passes
Tick ==
  /\ now < MaxClock
  /\ now' = now + 1
  /\ UNCHANGED <<db, issued, fetched, cfg, wk, aside>>

\* a heartbeat interval passes while the worker is between two iterations of
\* its loop (worker.py:166, time.sleep, or the time until the next poll)
Elapse(w) ==
  /\ wk[w].pc = "poll"
  /\ now + HEARTBEAT_SECONDS <= MaxIntervals * HEARTBEAT_SECONDS
  /\ now' = now + HEARTBEAT_SECONDS
  /\ UNCHANGED <<db, issued, fetched, cfg, wk, aside>>

(* ------------------------------ the worker ----------------------------- *)

\* worker.py:133-148, _heartbeat_if_needed: the time of the last heartbeat
\* after the check made at time t; the counts are printed when it changes
HeartbeatIfNeeded(last, t) ==
  IF t - last < HEARTBEAT_SECONDS THEN last ELSE t

\* worker.py:162-167: no queued row: heartbeat, sleep, poll again
PollEmpty(w) ==
  /\ wk[w].pc = "poll"
  /\ QueuedIds(events) = {}
  /\ beat' = [beat EXCEPT ![w] = HeartbeatIfNeeded(@, now)]
  /\ UNCHANGED <<db, now, issued, fetched, cfg, wk, script, files, summ, req>>

\* worker.py:162-172: a queued row is read; it becomes ev
PollFound(w) ==
  /\ wk[w].pc = "poll"
  /\ \E id \in QueuedIds(events) :
       Step(w, [Idle EXCEPT !.pc = "claim", !.ev = id])
  /\ UNCHANGED <<db, now, issued, fetched, cfg, aside>>

\* worker.py:173-174: the row read by the poll is marked processing
Claim(w) ==
  /\ wk[w].pc = "claim"
  /\ events' = ClaimUpdate(events, wk[w].ev)
  /\ Step(w, [wk[w] EXCEPT !.pc = "token"])
  /\ UNCHANGED <<tokens, activities, activity_streams, ride_analysis,
                 progress_summaries, now, issued, fetched, cfg, aside>>

\* worker.py:177-186: the credential row is read; a missing row raises, an
\* expiring one is refreshed before the fetch
TokenLookup(w) ==
  /\ wk[w].pc = "token"
  /\ IF Owner(w) \notin DOMAIN tokens
     THEN Step(w, [wk[w] EXCEPT !.pc = "except", !.err = NoTokenError])
     ELSE LET tok == tokens[Owner(w)] IN
          Step(w, [wk[w] EXCEPT
                     !.tok = tok,
                     !.access = tok.access_token,
                     !.now_ts = now,
                     !.pc = IF NeedsRefresh(tok, now) THEN "refresh1" ELSE "fetch"])
  /\ UNCHANGED <<db, now, issued, fetched, cfg, aside>>

\* worker.py:192-199: where the first fetch attempt leads
AfterFirstFetch(res) ==
  CASE res = "ok" -> "persist"
    [] res = "401" -> "refresh2"
    [] OTHER -> "except"

\* worker.py:196-197: where the retried fetch leads (it runs inside the
\* except clause, so whatever it raises reaches the handler at line 360)
AfterRetry(res) == IF res = "ok" THEN "persist" ELSE "except"

\* worker.py:234 and 349: after the snapshots are committed
AfterPersist(c, act) == IF AnalysisRuns(c, act) THEN "analyze" ELSE "finalize"

\* worker.py:235-248 and 346-348: an exception of analyze_ride or
\* save_ride_analysis is logged and the event goes on to be finalized
AfterAnalysis(res) == IF res = "ok" THEN "render" ELSE "finalize"

\* worker.py:294-306: an exception of the report stage is noted; the
\* summary follows when it is enabled
AfterRender(c, res) == IF c.summary THEN "summarize" ELSE "finalize"

\* worker.py:344-345: an exception of the summary stage is logged
AfterSummary(res) == "finalize"

\* worker.py:186 and 195: where a refresh leads; the helper has no try
\* block (150-159), so an exception of the request reaches the handler at
\* line 360 and the fetch that would follow is not made
AfterRefresh(pc, res) ==
  IF res = "ok" THEN (IF pc = "refresh1" THEN "fetch" ELSE "refetch") ELSE "except"

FetchErrorOf(res) == IF res = "401" THEN UnauthorizedError ELSE FetchError

\* worker.py:152-158: the pair the OAuth endpoint returned is stored
RefreshSaved(toks, athlete, pair, expires) ==
  UpsertTokens(toks, athlete, pair, pair, expires)

\* worker.py:150-159, _refresh_access_token_for_athlete, called at line 186
\* (proactive, pc refresh1) and at line 195 (after a 401, pc refresh2) with
\* the refresh token read at line 177
Refresh(w) ==
  /\ wk[w].pc \in {"refresh1", "refresh2"}
  /\ LET r == wk[w] IN
       \/ /\ issued < MaxIssued
          /\ issued' = issued + 1
          /\ \E e \in IssuedExpiries(now) :
               LET saved == RefreshSaved(tokens, Owner(w), issued + 1, e) IN
                 /\ tokens' = saved
                 /\ Step(w, [r EXCEPT
                               !.access = issued + 1,
                               !.pc = AfterRefresh(r.pc, "ok"),
                               !.calls = Append(@,
                                  [op |-> "refresh", res |-> "ok",
                                   with |-> r.tok.refresh_token,
                                   access |-> issued + 1,
                                   stored |-> saved[Owner(w)].access_token])])
       \/ /\ UNCHANGED <<tokens, issued>>
          /\ Step(w, [r EXCEPT
                        !.pc = AfterRefresh(r.pc, "err"),
                        !.err = RefreshError,
                        !.calls = Append(@,
                           [op |-> "refresh", res |-> "err",
                            with |-> r.tok.refresh_token,
                            access |-> -1, stored |-> -1])])
  /\ UNCHANGED <<events, activities, activity_streams, ride_analysis,
                 progress_summaries, now, fetched, cfg, aside>>

\* worker.py:190-191 (pc fetch) and 196-197 (pc refetch): get_activity and
\* get_activity_streams with the current access token
Fetch(w) ==
  /\ wk[w].pc \in {"fetch", "refetch"}
  /\ LET r == wk[w] IN
       \E res \in {"ok", "401", "err"} :
         LET next == IF r.pc = "fetch" THEN AfterFirstFetch(res) ELSE AfterRetry(res)
             entry == [op |-> "fetch", res |-> res, with |-> r.access,
                       access |-> -1, stored |-> -1]
         IN
           IF res = "ok"
           THEN /\ fetched < MaxFetch
                /\ fetched' = fetched + 1
                /\ \E sport \in SportTypes :
                     Step(w, [r EXCEPT
                                !.pc = next,
                                !.act = [id |-> fetched + 1, sport_type |-> sport],
                                !.err = IF next = "except" THEN FetchError ELSE @,
                                !.calls = Append(@, entry)])
           ELSE /\ UNCHANGED fetched
                /\ Step(w, [r EXCEPT
                              !.pc = next,
                              !.err = IF next = "except" THEN FetchErrorOf(res) ELSE @,
                              !.calls = Append(@, entry)])
  /\ UNCHANGED <<db, now, issued, cfg, aside>>

\* worker.py:206-213 / 223-226: the activities row of one fetch is upserted
SaveActivity(table, object, athlete, act) ==
  Put(table, object, [athlete_id |-> athlete, raw_json |-> act])

\* worker.py:214-221 / 227-230: the activity_streams row is upserted
SaveStreams(table, object, act) == Put(table, object, act.id)

\* worker.py:201-231: both snapshots are upserted and committed; an INSERT
\* that raises leaves the transaction open with the writes made before it
Persist(w) ==
  /\ wk[w].pc = "persist"
  /\ LET r == wk[w] IN
       \/ /\ activities' = SaveActivity(activities, Object(w), Owner(w), r.act)
          /\ activity_streams' = SaveStreams(activity_streams, Object(w), r.act)
          /\ Step(w, [r EXCEPT !.pc = AfterPersist(cfg, r.act)])
       \/ /\ UNCHANGED <<activities, activity_streams>>
          /\ \E written \in BOOLEAN :
               Step(w, [r EXCEPT !.pc = "except", !.err = PersistError, !.pend = written])
  /\ UNCHANGED <<events, tokens, ride_analysis, progress_summaries,
                 now, issued, fetched, cfg, aside>>

\* ride_analyzer.py:302-311: the narrative analyze_ride returns when the
\* completion call raised inside its try block
AnalysisErrorNarrative == "## Analysis Error"

\* ride_analyzer.py:285-305: the narrative taken from the completion
GeneratedNarrative == "narrative"

\* ride_analyzer.py:254-311: what analyze_ride returns for the outcome of the
\* completion call; the exception is caught and a record is returned
NarrativeOf(completion) ==
  IF completion = "ok" THEN GeneratedNarrative ELSE AnalysisErrorNarrative

\* db.py:286, save_ride_analysis as called at worker.py:240-247 (no athlete_id
\* argument: the column gets the default, None)
AnalysisRow(act, t, narrative) ==
  [athlete_id |-> NoAthlete, created_at |-> t, of |-> act.id,
   narrative |-> narrative]

\* worker.py:235-248: analyze_ride, then save_ride_analysis.  analyze_ride
\* raises before the completion call (ride_analyzer.py:62, 66, 40, 44, 245)
\* or returns a record, also when the completion call failed
Analyze(w) ==
  /\ wk[w].pc = "analyze"
  /\ LET r == wk[w] IN
       \/ \E completion \in {"ok", "raise"} :
            /\ ride_analysis' = Put(ride_analysis, Object(w),
                                    AnalysisRow(r.act, now, NarrativeOf(completion)))
            /\ Step(w, [r EXCEPT !.pc = AfterAnalysis("ok"),
                                 !.soft = IF completion = "ok" THEN @
                                          ELSE @ \cup {"narrative"}])
       \/ /\ UNCHANGED ride_analysis
          /\ Step(w, [r EXCEPT !.pc = AfterAnalysis("raise"),
                               !.soft = @ \cup {"analysis"}])
  /\ UNCHANGED <<events, tokens, activities, activity_streams, progress_summaries,
                 now, issued, fetched, cfg, aside>>

\* worker.py:251-303: the Markdown (and PDF) report; the outcome is noted in
\* last_error of the event row.  The worker never reads the report
\* directory; the file the step writes there is the subject of WriteReport.
Render(w) ==
  /\ wk[w].pc = "render"
  /\ LET r == wk[w] IN
       \/ /\ events' = NoteUpdate(events, r.ev, ReportGenerated)
          /\ Step(w, [r EXCEPT !.pc = AfterRender(cfg, "ok")])
       \/ /\ events' = NoteUpdate(events, r.ev, ReportFailed)
          /\ Step(w, [r EXCEPT !.pc = AfterRender(cfg, "raise"),
                               !.soft = @ \cup {"render"}])
  /\ UNCHANGED <<tokens, activities, activity_streams, ride_analysis,
                 progress_summaries, now, issued, fetched, cfg, aside>>

\* worker.py:308-309: the records list_ride_analyses_chronological(con)
\* returns, called without an athlete (db.py:358-381: no WHERE clause), each
\* as the activity it is for and the fetch its narrative was made from
SummaryInput(analyses) == {<<k, analyses[k].of>> : k \in DOMAIN analyses}

\* db.py:415, save_progress_summary as called at worker.py:312-318 (no
\* athlete_id argument); the summary text is made from the input records
SummaryRow(analyses, t) ==
  [athlete_id |-> NoAthlete, created_at |-> t, over |-> SummaryInput(analyses)]

\* worker.py:306-345: the progress summary over all analysis rows
Summarize(w) ==
  /\ wk[w].pc = "summarize"
  /\ LET r == wk[w] IN
       \/ /\ progress_summaries' =
               Put(progress_summaries, Object(w), SummaryRow(ride_analysis, now))
          /\ Step(w, [r EXCEPT !.pc = AfterSummary("ok")])
       \/ /\ UNCHANGED progress_summaries
          /\ Step(w, [r EXCEPT !.pc = AfterSummary("raise"),
                               !.soft = @ \cup {"summary"}])
  /\ UNCHANGED <<events, tokens, activities, activity_streams, ride_analysis,
                 now, issued, fetched, cfg, aside>>

\* worker.py:357-359: the event is marked done
FinalizeDone(w) ==
  /\ wk[w].pc = "finalize"
  /\ events' = DoneUpdate(events, wk[w].ev)
  /\ Step(w, [wk[w] EXCEPT !.pc = "poll"])
  /\ UNCHANGED <<tokens, activities, activity_streams, ride_analysis,
                 progress_summaries, now, issued, fetched, cfg, aside>>

\* worker.py:360-363: the event is marked failed with str(e); the commit also
\* commits what the open transaction holds
FailureHandler(w) ==
  /\ wk[w].pc = "except"
  /\ LET r == wk[w] IN
       /\ events' = FailedUpdate(events, r.ev, r.err)
       /\ activities' = IF r.pend
                        THEN SaveActivity(activities, Object(w), Owner(w), r.act)
                        ELSE activities
       /\ Step(w, [r EXCEPT !.pc = "poll", !.pend = FALSE])
  /\ UNCHANGED <<tokens, activity_streams, ride_analysis,
                 progress_summaries, now, issued, fetched, cfg, aside>>

\* the worker process is killed while it handles an event and is started
\* again: its locals and its open transaction are lost, the event row stays
\* as the last commit left it (worker.py has no handler for termination)
Crash(w) ==
  /\ wk[w].pc \notin {"poll", "claim"}
  /\ Step(w, Idle)
  /\ UNCHANGED <<db, now, issued, fetched, cfg, aside>>

(* --------------------------- the report reads -------------------------- *)

\* db.py:326, get_ride_analysis, and get_progress_summary in the same way,
\* as called by get_report (webhook_server.py:314-333) with the athlete of
\* the session: the rows SELECT ... WHERE activity_id=? AND athlete_id=?
\* returns (a NULL athlete_id equals no value)
ScopedRead(table, activity_id, athlete_id) ==
  {table[k] : k \in {i \in DOMAIN table \cap {activity_id} :
                       /\ table[i].athlete_id # NoAthlete
                       /\ table[i].athlete_id = athlete_id}}

(* ------------------------- the backfill endpoint ----------------------- *)

\* webhook_server.py:232-254, backfill_activities: the athlete's processing
\* rows are reset and committed, an expiring credential is refreshed, and
\* the call at line 254 raises (StravaClient has no list_athlete_activities),
\* so lines 256-278 are not reached
Backfill(athlete) ==
  /\ events' = ResetUpdate(events, athlete)
  /\ IF athlete \in DOMAIN tokens /\ tokens[athlete].expires_at <= now + 60
       THEN \/ /\ issued < MaxIssued
               /\ issued' = issued + 1
               /\ \E e \in IssuedExpiries(now) :
                    tokens' = UpsertTokens(tokens, athlete, issued + 1, issued + 1, e)
            \/ UNCHANGED <<tokens, issued>>
       ELSE UNCHANGED <<tokens, issued>>
  /\ UNCHANGED <<activities, activity_streams, ride_analysis, progress_summaries,
                 now, fetched, cfg, wk, aside>>

(* ------------------ the OAuth callback and the refresh script ---------- *)

\* db.py:157-170 and 543: the athletes seeded into allowed_athletes
AllowedAthletes == {a \in Athletes : a <= 2}

\* webhook_server.py:135-169, auth_callback: the code is exchanged for a
\* token pair, which is stored if the athlete is allowed
AuthCallback(athlete) ==
  /\ issued < MaxIssued
  /\ issued' = issued + 1
  /\ IF athlete \in AllowedAthletes
       THEN \E e \in IssuedExpiries(now) :
              tokens' = UpsertTokens(tokens, athlete, issued + 1, issued + 1, e)
       ELSE UNCHANGED tokens
  /\ UNCHANGED <<events, activities, activity_streams, ride_analysis,
                 progress_summaries, now, fetched, cfg, wk, aside>>

\* refresh_tokens.py:20-28, refresh_tokens_for_athlete up to the return of
\* client.refresh_access_token: the stored refresh token is read and a new
\* pair is requested; without a row, or when the request raises, the script
\* prints a message and ends
ScriptCall(athlete) ==
  /\ script.pc = "idle"
  /\ athlete \in DOMAIN tokens
  /\ \/ /\ issued < MaxIssued
        /\ issued' = issued + 1
        /\ script' = [pc |-> "save", athlete |-> athlete, pair |-> issued + 1]
     \/ UNCHANGED <<issued, script>>
  /\ UNCHANGED <<db, now, fetched, cfg, wk, files, summ, beat, req>>

\* refresh_tokens.py:29-36: the pair the request returned is stored
ScriptSave ==
  /\ script.pc = "save"
  /\ \E e \in IssuedExpiries(now) :
       tokens' = UpsertTokens(tokens, script.athlete, script.pair, script.pair, e)
  /\ script' = ScriptIdle
  /\ UNCHANGED <<events, activities, activity_streams, ride_analysis,
                 progress_summaries, now, issued, fetched, cfg, wk, files, summ, beat, req>>

(* ----------------------- the activity client ----------------------------- *)

\* a variant of RateLimited used to test C24: every error response is retried
RateLimited_AnyError(status) == status >= 400

\* strava_client.py:23
RateLimited(status) == status = 429

\* strava_client.py:24, time.sleep(10)
RETRY_WAIT_SECONDS == 10

\* requests.Response.raise_for_status, called at strava_client.py:26: an
\* HTTPError for a 4xx or 5xx status
RaisesForStatus(status) == status >= 400 /\ status < 600

\* strava_client.py:22: the first GET
RequestGet ==
  /\ req.pc = "get"
  /\ req' = [req EXCEPT !.r = req.server[req.sent + 1],
                        !.sent = @ + 1,
                        !.pc = "check"]
  /\ UNCHANGED <<db, now, issued, fetched, cfg, wk, script, files, summ, beat>>

\* strava_client.py:23-25: on a 429 the client sleeps and sends the request
\* once more; r is then the second response
RequestCheck ==
  /\ req.pc = "check"
  /\ req' = IF RateLimited(req.r)
            THEN [req EXCEPT !.slept = @ + RETRY_WAIT_SECONDS,
                             !.r = req.server[req.sent + 1],
                             !.sent = @ + 1,
                             !.pc = "status"]
            ELSE [req EXCEPT !.pc = "status"]
  /\ UNCHANGED <<db, now, issued, fetched, cfg, wk, script, files, summ, beat>>

\* strava_client.py:26-27: r.raise_for_status(), return r.json()
RequestReturn ==
  /\ req.pc = "status"
  /\ req' = [req EXCEPT
               !.result = [raised |-> RaisesForStatus(req.r), status |-> req.r],
               !.pc = "done"]
  /\ UNCHANGED <<db, now, issued, fetched, cfg, wk, script, files, summ, beat>>

(* ----------------------- the progress summarizer ----------------------- *)

\* Text is a sequence of one-character strings, so that len() is Len.

\* a variant of PopOldest used to test C18: the newest report is dropped
PopOldest_Newest(list) == SubSeq(list, 1, Len(list) - 1)

\* str.strip() removes these from both ends (the ones that occur here)
Whitespace == {" ", "\n", "\t"}

RECURSIVE LStrip(_)
LStrip(s) ==
  IF s # <<>> /\ Head(s) \in Whitespace THEN LStrip(Tail(s)) ELSE s

RECURSIVE RStrip(_)
RStrip(s) ==
  IF s # <<>> /\ s[Len(s)] \in Whitespace
  THEN RStrip(SubSeq(s, 1, Len(s) - 1))
  ELSE s

Strip(s) == RStrip(LStrip(s))

\* "\n".join(parts)
RECURSIVE JoinLines(_)
JoinLines(parts) ==
  IF parts = <<>> THEN <<>>
  ELSE IF Len(parts) = 1 THEN parts[1]
  ELSE parts[1] \o <<"\n">> \o JoinLines(Tail(parts))

\* str(n) of a natural number
DigitChars == <<"0", "1", "2", "3", "4", "5", "6", "7", "8", "9">>

RECURSIVE Str(_)
Str(n) ==
  IF n < 10 THEN <<DigitChars[n + 1]>>
  ELSE Str(n \div 10) \o <<DigitChars[(n % 10) + 1]>>

\* progress_summarizer.py:53, time.strftime("%Y-%m-%d %H:%M:%S",
\* time.localtime(t)) for a time in the first minute of the epoch, in UTC
EpochMinute ==
  <<"1", "9", "7", "0", "-", "0", "1", "-", "0", "1", " ", "0", "0", ":",
    "0", "0", ":">>
Strftime(t) == EpochMinute \o (IF t < 10 THEN <<"0">> ELSE <<>>) \o Str(t)

\* progress_summarizer.py:50, the name used when the activity has none
UntitledRide ==
  <<"U", "n", "t", "i", "t", "l", "e", "d", " ", "R", "i", "d", "e">>

\* the literal text of the header at progress_summarizer.py:55
HeaderMark == <<"#", "#", "#", " ">>
\* the one character U+2014 (em dash), written by its code point
EmDash == "U+2014"
HeaderDash == <<" ", EmDash, " ">>
HeaderIdOpen ==
  <<" ", "(", "a", "c", "t", "i", "v", "i", "t", "y", "_", "i", "d", "=">>
HeaderIdClose == <<")">>

\* progress_summarizer.py:59, the separator after every report
Rule == <<"\n", "-", "-", "-", "\n">>

\* progress_summarizer.py:98
TruncationNotice ==
  <<"N", "O", "T", "E", ":", " ", "O", "l", "d", "e", "r", " ", "r", "e",
    "p", "o", "r", "t", "s", " ", "w", "e", "r", "e", " ", "t", "r", "u", "n",
    "c", "a", "t", "e", "d", " ", "d", "u", "e", " ", "t", "o", " ", "s", "i",
    "z", "e", " ", "l", "i", "m", "i", "t", "s", ".", "\n", "\n">>

\* progress_summarizer.py:49-55: the header line of one report
Header(a) ==
  LET name == IF a.name # <<>> THEN a.name ELSE UntitledRide
      created_str == IF a.created_at # 0 THEN Strftime(a.created_at) ELSE <<>>
      date == IF a.start_date # <<>> THEN a.start_date ELSE created_str
  IN HeaderMark \o date \o HeaderDash \o name
       \o HeaderIdOpen \o Str(a.activity_id) \o HeaderIdClose

\* progress_summarizer.py:47-59: four parts for every report
RECURSIVE ReportParts(_)
ReportParts(analyses) ==
  IF analyses = <<>> THEN <<>>
  ELSE <<Header(Head(analyses)), <<>>, Head(analyses).narrative, Rule>>
         \o ReportParts(Tail(analyses))

\* progress_summarizer.py:46-60, _format_reports_chronological
FormatReportsChronological(analyses) == Strip(JoinLines(ReportParts(analyses)))

\* progress_summarizer.py:96, trimmed.pop(0)
PopOldest(list) == Tail(list)

\* progress_summarizer.py:94-96: the loop that drops reports until the text fits
RECURSIVE Trimmed(_, _)
Trimmed(trimmed, max_chars) ==
  IF trimmed # <<>> /\ Len(FormatReportsChronological(trimmed)) > max_chars
  THEN Trimmed(PopOldest(trimmed), max_chars)
  ELSE trimmed

\* progress_summarizer.py:85-99: the text that replaces the placeholder of
\* the prompt template
ReportsText(analyses, max_chars) ==
  IF Len(FormatReportsChronological(analyses)) > max_chars
  THEN TruncationNotice \o FormatReportsChronological(Trimmed(analyses, max_chars))
  ELSE FormatReportsChronological(analyses)

\* progress_summarizer.py:63, summarize_progress, up to the prompt; line 86
\* raises when there is nothing to summarize
SummarizeProgress ==
  /\ ~summ.called
  /\ LET empty == Strip(FormatReportsChronological(summ.analyses)) = <<>> IN
       summ' = [summ EXCEPT
                  !.called = TRUE,
                  !.raised = empty,
                  !.text = IF empty THEN <<>>
                           ELSE ReportsText(summ.analyses, summ.max_chars)]
  /\ UNCHANGED <<db, now, issued, fetched, cfg, wk, script, files, beat, req>>

(* --------------------------- the report files -------------------------- *)

\* the characters of the activity names below for which str.isalnum() is true
Letters ==
  {"a", "b", "c", "d", "e", "f", "g", "h", "i", "j", "k", "l", "m", "n", "o",
   "p", "q", "r", "s", "t", "u", "v", "w", "x", "y", "z", "A", "B", "C", "D",
   "E", "F", "G", "H", "I", "J", "K", "L", "M", "N", "O", "P", "Q", "R", "S",
   "T", "U", "V", "W", "X", "Y", "Z"}
Alnum == Letters \cup {DigitChars[i] : i \in 1..10}

\* worker.py:261, safe_name[:50]
NameLimit == 50

\* worker.py:261, the stem used when nothing is left of the name
RideStem == <<"R", "i", "d", "e">>

\* ride_analyzer.py:20, _PROMPT_VERSION
PromptVersion == <<"f", "r", "e", "d", "_", "v", "3">>

\* worker.py:258, 263: "".join(c if c.isalnum() or c in keep else '_' ...)
ReplaceOthers(s, keep) ==
  [i \in 1..Len(s) |-> IF s[i] \in Alnum \cup keep THEN s[i] ELSE "_"]

\* worker.py:259, re.sub(r'_+', '_', s)
RECURSIVE CollapseUnderscores(_)
CollapseUnderscores(s) ==
  IF Len(s) < 2 THEN s
  ELSE IF s[1] = "_" /\ s[2] = "_" THEN CollapseUnderscores(Tail(s))
  ELSE <<s[1]>> \o CollapseUnderscores(Tail(s))

\* worker.py:260, s.strip('_')
RECURSIVE StripUnderscores(_)
StripUnderscores(s) ==
  IF s # <<>> /\ Head(s) = "_" THEN StripUnderscores(Tail(s))
  ELSE IF s # <<>> /\ s[Len(s)] = "_"
  THEN StripUnderscores(SubSeq(s, 1, Len(s) - 1))
  ELSE s

\* s[:n]
Prefix(s, n) == SubSeq(s, 1, IF Len(s) < n THEN Len(s) ELSE n)

\* worker.py:258-261: replace, collapse, strip, and only then cut to 50
SafeName(ride_name) ==
  LET replaced == ReplaceOthers(ride_name, {"_"})
      collapsed == CollapseUnderscores(replaced)
      stripped == StripUnderscores(collapsed)
  IN IF stripped # <<>> THEN Prefix(stripped, NameLimit) ELSE RideStem

\* worker.py:263-264
SafeVersion(prompt_version) ==
  StripUnderscores(CollapseUnderscores(ReplaceOthers(prompt_version, {"_", "-", "."})))

\* worker.py:271, f"{safe_name}_{safe_version}_{ev['object_id']}.md"
MdFilename(safe_name, safe_version, object_id) ==
  safe_name \o <<"_">> \o safe_version \o <<"_">> \o Str(object_id)
    \o <<".", "m", "d">>

\* worker.py:255-273: one run of the render step for the activity object_id
\* whose name is ride_name at the time of the fetch; generate_ride_markdown
\* creates the file or overwrites the one at the same path
WriteReport(object_id, ride_name) ==
  /\ LET safe_name == SafeName(ride_name)
         safe_version == SafeVersion(PromptVersion)
         md_filename == MdFilename(safe_name, safe_version, object_id)
     IN files' = Put(files, md_filename,
                     [safe_name |-> safe_name, safe_version |-> safe_version,
                      object_id |-> object_id])
  /\ UNCHANGED <<db, now, issued, fetched, cfg, wk, script, summ, beat, req>>

(* --------------------------- the specification ------------------------- *)

WorkerStep(w) ==
  \/ PollEmpty(w)
  \/ PollFound(w)
  \/ Claim(w)
  \/ TokenLookup(w)
  \/ Refresh(w)
  \/ Fetch(w)
  \/ Persist(w)
  \/ Analyze(w)
  \/ Render(w)
  \/ Summarize(w)
  \/ FinalizeDone(w)
  \/ FailureHandler(w)

\* one worker process (spec.md section 5: a single active worker), the
\* webhook receiver, the backfill endpoint and the clock
Next ==
  \/ WorkerStep(1)
  \/ \E a \in Athletes, o \in Objects : Len(events) < MaxEvents /\ Receive(a, o)
  \/ \E a \in Athletes : Backfill(a)
  \/ Tick

Spec == Init /\ [][Next]_vars

\* several worker processes against the same queue table, started with
\* every capability enabled and an expiring credential, within one clock
\* reading
InitWorkers ==
  /\ Init
  /\ cfg = [ai |-> TRUE, summary |-> TRUE, pdf |-> TRUE]
  /\ tokens[1].expires_at = TOKEN_REFRESH_SKEW_SECONDS

NextWorkers ==
  \/ \E w \in Workers : WorkerStep(w)
  \/ \E a \in Athletes, o \in Objects : Len(events) < MaxEvents /\ Receive(a, o)
  \/ \E a \in Athletes : Backfill(a)

SpecWorkers == InitWorkers /\ [][NextWorkers]_vars

\* worker processes claiming from the same queue, with no backfill reset
NextClaimers ==
  \/ \E w \in Workers : WorkerStep(w)
  \/ \E a \in Athletes, o \in Objects : Len(events) < MaxEvents /\ Receive(a, o)

SpecClaimers == InitWorkers /\ [][NextClaimers]_vars

\* one worker process that can be killed and restarted, webhook deliveries
\* for any athlete and the backfill endpoint, started with every capability
\* enabled and a credential that does not expire within the clock's range
InitRecovery ==
  /\ Init
  /\ cfg = [ai |-> TRUE, summary |-> TRUE, pdf |-> TRUE]
  /\ tokens[1].expires_at = TOKEN_REFRESH_SKEW_SECONDS + MaxClock + 1

NextRecovery ==
  \/ WorkerStep(1)
  \/ Crash(1)
  \/ \E a \in Athletes, o \in Objects : Len(events) < MaxDeliveries /\ Receive(a, o)
  \/ \E a \in Athletes : Backfill(a)

SpecRecovery == InitRecovery /\ [][NextRecovery]_vars

\* one worker process with everything that writes the tokens table: the
\* OAuth callback, the backfill endpoint and the refresh script
NextTokens ==
  \/ WorkerStep(1)
  \/ \E a \in Athletes, o \in Objects : Len(events) < MaxEvents /\ Receive(a, o)
  \/ \E a \in Athletes : Backfill(a)
  \/ \E a \in Athletes : AuthCallback(a)
  \/ \E a \in Athletes : ScriptCall(a)
  \/ ScriptSave

SpecTokens == InitWorkers /\ [][NextTokens]_vars

\* one worker process and several accounts: athletes authorize through the
\* OAuth callback, and every athlete has one activity, numbered as the
\* athlete, for which webhook events arrive
NextAccounts ==
  \/ WorkerStep(1)
  \/ \E a \in Athletes : AuthCallback(a)
  \/ \E a \in Athletes : Len(events) < MaxDeliveries /\ Receive(a, a)

SpecAccounts == InitRecovery /\ [][NextAccounts]_vars

\* several worker processes and repeated webhook deliveries for the
\* activities of the athlete who has a credential (Strava sends a create
\* event and then an update event for every change of the same activity)
NextSnapshots ==
  \/ \E w \in Workers : WorkerStep(w)
  \/ \E o \in Objects : Len(events) < MaxDeliveries /\ Receive(1, o)

SpecSnapshots == InitRecovery /\ [][NextSnapshots]_vars

\* the analysis records the summarizer is given in this specification: with
\* and without a name, a start date and a narrative, and with an identifier
\* of two digits
Reports ==
  {[activity_id |-> 1, name |-> <<"A">>, start_date |-> <<"d", "1">>,
    created_at |-> 1, narrative |-> <<"x", "x">>],
   [activity_id |-> 2, name |-> <<>>, start_date |-> <<"d", "2">>,
    created_at |-> 2, narrative |-> <<>>],
   [activity_id |-> 3, name |-> <<"B">>, start_date |-> <<>>,
    created_at |-> 3, narrative |-> <<"x", "\n", "x", "\n">>],
   [activity_id |-> 12, name |-> <<"C">>, start_date |-> <<"d">>,
    created_at |-> 4, narrative |-> <<" ", "x", "x", "x", "x", "x", "x", "x">>]}

\* db.py:381, ORDER BY ra.created_at ASC: the lists the worker can pass
ChronologicalLists ==
  {l \in UNION {[1..n -> Reports] : n \in 0..MaxReports} :
     \A i \in 1..(Len(l) - 1) : l[i].created_at < l[i + 1].created_at}

\* values of PROGRESS_SUMMARY_MAX_CHARS (progress_summarizer.py:90): below,
\* at and above the length of one, two and three formatted reports
Budgets == {0, 34, 35, 45, 80, 100, 150}

\* the summarizer alone, called once with a list of records and a budget
InitTruncate ==
  /\ events = <<>>
  /\ tokens = EmptyTable
  /\ activities = EmptyTable
  /\ activity_streams = EmptyTable
  /\ ride_analysis = EmptyTable
  /\ progress_summaries = EmptyTable
  /\ now = 0
  /\ issued = 0
  /\ fetched = 0
  /\ cfg = [ai |-> TRUE, summary |-> TRUE, pdf |-> TRUE]
  /\ wk = [w \in Workers |-> Idle]
  /\ script = ScriptIdle
  /\ files = EmptyTable
  /\ beat = [w \in Workers |-> 0]
  /\ req = NoRequest
  /\ \E l \in ChronologicalLists, m \in Budgets :
       summ = [NoSummary EXCEPT !.analyses = l, !.max_chars = m]

NextTruncate == SummarizeProgress

SpecTruncate == InitTruncate /\ [][NextTruncate]_vars

\* a run of k letters
Fill(k) == [i \in 1..k |-> "a"]

\* the activity names the API returns in this specification: a run of
\* letters, of a length around the limit of 50 or short, followed by up to
\* MaxTail letters, spaces and underscores
FillLengths == {0, 1, NameLimit - 2, NameLimit - 1, NameLimit}
Tails == UNION {[1..n -> {"b", " ", "_"}] : n \in 0..MaxTail}
RideNames == {Fill(k) \o t : k \in FillLengths, t \in Tails}

\* the render step alone: activities are processed and re-processed, and an
\* activity can have been renamed between two runs (Strava sends an update
\* event for a change of the title)
NextReports ==
  \E o \in Objects, n \in RideNames :
    Cardinality(DOMAIN files) < MaxFiles /\ WriteReport(o, n)

SpecReports == InitRecovery /\ [][NextReports]_vars

\* one worker process over a time of several heartbeat intervals, with
\* webhook deliveries for the athlete who has a credential
NextHeartbeat ==
  \/ WorkerStep(1)
  \/ \E o \in Objects : Len(events) < MaxDeliveries /\ Receive(1, o)
  \/ Elapse(1)

SpecHeartbeat == InitRecovery /\ [][NextHeartbeat]_vars

\* the status codes the API answers with in SpecRequest
StatusCodes == {200, 401, 404, 429, 500}

\* one call of StravaClient._request against an API that answers the
\* requests it receives with any sequence of status codes
InitRequest ==
  /\ events = <<>>
  /\ tokens = EmptyTable
  /\ activities = EmptyTable
  /\ activity_streams = EmptyTable
  /\ ride_analysis = EmptyTable
  /\ progress_summaries = EmptyTable
  /\ now = 0
  /\ issued = 0
  /\ fetched = 0
  /\ cfg = [ai |-> TRUE, summary |-> TRUE, pdf |-> TRUE]
  /\ wk = [w \in Workers |-> Idle]
  /\ script = ScriptIdle
  /\ files = EmptyTable
  /\ summ = NoSummary
  /\ beat = [w \in Workers |-> 0]
  /\ \E server \in [1..MaxResponses -> StatusCodes] :
       req = [NoRequest EXCEPT !.pc = "get", !.server = server]

NextRequest ==
  \/ RequestGet
  \/ RequestCheck
  \/ RequestReturn

SpecRequest == InitRequest /\ [][NextRequest]_vars

\* one worker process that is not killed and keeps running its loop, and
\* finitely many webhook deliveries; every external call returns or raises,
\* so every step of the loop completes (weak fairness of the worker's steps)
NextLive ==
  \/ WorkerStep(1)
  \/ \E a \in Athletes, o \in Objects : Len(events) < MaxDeliveries /\ Receive(a, o)

SpecLive == Init /\ [][NextLive]_vars /\ WF_vars(WorkerStep(1))

(* ------------------------------ properties ----------------------------- *)

\* the worker has run its claim update for ev and has not finalized it yet
Holding(w) == wk[w].pc \notin {"poll", "claim"}

\* the worker has finalized ev and has not picked another event since
Finished(w) == wk[w].pc = "poll" /\ wk[w].ev # 0

StatusOf(w) == events[wk[w].ev].status

\* C1: under any interleaving of two or more workers running the claim step
\* (read one queued row, then set it to processing), no two workers obtain
\* the same event row: two workers never hold the same event at once.
C1_ExclusiveClaim ==
  \A w1, w2 \in Workers :
    (w1 # w2 /\ Holding(w1) /\ Holding(w2)) => wk[w1].ev # wk[w2].ev

\* C2: when a worker has finished its loop iteration for an event it
\* claimed, the event is done or failed; it is not left in processing.
C2_FinishedNotProcessing ==
  \A w \in Workers : Finished(w) => StatusOf(w) \in {"done", "failed"}

C2_Witness ==
  \E w \in Workers :
    /\ Finished(w) /\ StatusOf(w) = "done"
    /\ Len(wk[w].calls) >= 1

\* C3: the claim update only ever changes a row that is queued at the moment
\* of the update, and finalize (done or failed) only ever changes a row that
\* is processing at that moment.
C3_GuardedTransitions ==
  [][\A w \in Workers :
       /\ (wk[w].pc = "claim" /\ wk'[w].pc = "token")
            => events[wk[w].ev].status = "queued"
       /\ (wk[w].pc \in {"finalize", "except"} /\ wk'[w].pc = "poll")
            => events[wk[w].ev].status = "processing"]_vars

\* C4: a claimed event is finalized failed only after a failure of token
\* readiness, fetch or snapshot persistence; an event in which analysis,
\* report rendering or the progress summary raised is finalized done.
C4_FailedOnlyOnHardFailure ==
  \A w \in Workers :
    Finished(w) =>
      /\ StatusOf(w) = "failed" =>
           /\ wk[w].err \in HardErrors
           /\ wk[w].soft = {}
           /\ events[wk[w].ev].last_error = wk[w].err
      /\ wk[w].soft # {} => StatusOf(w) = "done"

C4_Witness ==
  \E w \in Workers :
    Finished(w) /\ "summary" \in wk[w].soft /\ StatusOf(w) = "done"

\* C5: if the analysis step raises for a claimed ride event, the event still
\* reaches done and the activity and stream snapshots written for it remain.
C5_AnalysisFailureIsolated ==
  \A w \in Workers :
    (Finished(w) /\ "analysis" \in wk[w].soft) =>
      /\ StatusOf(w) = "done"
      /\ Object(w) \in DOMAIN activities
      /\ activities[Object(w)].raw_json = wk[w].act
      /\ Object(w) \in DOMAIN activity_streams
      /\ activity_streams[Object(w)] = wk[w].act.id

C5_Witness ==
  \E w \in Workers :
    /\ Finished(w) /\ "analysis" \in wk[w].soft
    /\ wk[w].act.sport_type \in RideTypes
    /\ StatusOf(w) = "done"

\* C6: once an event is done or failed, no worker step and no backfill reset
\* changes its status again.
C6_TerminalStatusKept ==
  [][\A e \in 1..Len(events) :
       events[e].status \in {"done", "failed"}
         => events'[e].status = events[e].status]_vars

\* the positions of the fetch attempts and of the refresh calls in a record
\* of external calls
FetchIdx(c) == {i \in 1..Len(c) : c[i].op = "fetch"}
RefreshIdx(c) == {i \in 1..Len(c) : c[i].op = "refresh"}
FirstFetch(c) == CHOOSE i \in FetchIdx(c) : \A j \in FetchIdx(c) : i <= j

\* the credential the worker read for the event was within the skew window
Expiring(w) ==
  /\ wk[w].tok # NoTok
  /\ wk[w].tok.expires_at <= wk[w].now_ts + TOKEN_REFRESH_SKEW_SECONDS

\* C7: when the stored credential has expires_at <= now + skew, the worker
\* calls token refresh and stores the new credential before the first fetch,
\* and that fetch uses the new access token; when expires_at > now + skew,
\* no refresh precedes the first fetch.
C7_ProactiveRefresh ==
  \A w \in Workers :
    LET c == wk[w].calls IN
      /\ (Expiring(w) /\ wk[w].pc # "refresh1") =>
           /\ Len(c) >= 1
           /\ c[1].op = "refresh"
           /\ c[1].with = wk[w].tok.refresh_token
      /\ (wk[w].tok # NoTok /\ FetchIdx(c) # {}) =>
           IF Expiring(w)
           THEN /\ FirstFetch(c) = 2
                /\ c[1].op = "refresh" /\ c[1].res = "ok"
                /\ c[1].stored = c[1].access
                /\ c[1].access # wk[w].tok.access_token
                /\ c[2].with = c[1].access
           ELSE /\ FirstFetch(c) = 1
                /\ c[1].with = wk[w].tok.access_token

C7_Witness ==
  \E w \in Workers :
    /\ Expiring(w)
    /\ wk[w].tok.expires_at = wk[w].now_ts + TOKEN_REFRESH_SKEW_SECONDS
    /\ Len(wk[w].calls) >= 2
    /\ wk[w].calls[2].op = "fetch"

\* C8: the worker refreshes the token and retries the fetch if and only if
\* the first fetch attempt fails with 401, and at most once; any other fetch
\* failure, or any failure of the retry, finalizes the event failed with no
\* further refresh or fetch.
C8_RetryOnceOn401 ==
  \A w \in Workers :
    LET c == wk[w].calls
        f == FirstFetch(c)
        later == {i \in RefreshIdx(c) : i > f}
        retries == FetchIdx(c) \ {f}
    IN
      FetchIdx(c) # {} =>
        /\ Cardinality(later) <= 1
        /\ Cardinality(retries) <= 1
        /\ \A i \in later : c[f].res = "401" /\ i = f + 1
        /\ \A j \in retries :
             /\ j = f + 2
             /\ f + 1 \in later
             /\ c[f + 1].res = "ok"
             /\ c[j].with = c[f + 1].access
        /\ (c[f].res = "401" /\ wk[w].pc # "refresh2") => f + 1 \in later
        /\ (f + 1 \in later /\ c[f + 1].res = "ok" /\ wk[w].pc # "refetch")
             => f + 2 \in retries
        /\ (Finished(w) /\ c[Len(c)].op = "fetch" /\ c[Len(c)].res # "ok") =>
             /\ StatusOf(w) = "failed"
             /\ events[wk[w].ev].last_error = FetchErrorOf(c[Len(c)].res)
        /\ (c[f].res = "err") => Len(c) = f
        /\ \A j \in retries : c[j].res # "ok" => Len(c) = j

C8_Witness ==
  \E w \in Workers :
    LET c == wk[w].calls IN
      /\ Finished(w)
      /\ Len(c) = 3
      /\ c[1].op = "fetch" /\ c[1].res = "401"
      /\ c[2].op = "refresh" /\ c[2].res = "ok"
      /\ c[3].op = "fetch" /\ c[3].res = "401"
      /\ StatusOf(w) = "failed"

\* C9: if no credential row exists for the owner of a claimed event, the
\* event is finalized failed with the missing-credential message in
\* last_error, no refresh or fetch call is made, and no activity or stream
\* snapshot is written.
C9_MissingCredential ==
  [][\A w \in Workers :
       LET r == wk[w] IN
         /\ (r.pc = "token" /\ wk'[w].pc # "token"
               /\ events[r.ev].owner_id \notin DOMAIN tokens)
              => /\ wk'[w].pc = "except"
                 /\ wk'[w].err = NoTokenError
                 /\ wk'[w].calls = <<>>
                 /\ UNCHANGED <<db, issued, fetched>>
         /\ (r.pc = "except" /\ r.err = NoTokenError /\ wk'[w].pc = "poll")
              => /\ events'[r.ev].status = "failed"
                 /\ events'[r.ev].last_error = NoTokenError
                 /\ r.calls = <<>>
                 /\ UNCHANGED <<tokens, activities, activity_streams,
                                ride_analysis, progress_summaries, issued, fetched>>]_vars

C9_Witness ==
  \E w \in Workers :
    /\ Finished(w)
    /\ Owner(w) \notin DOMAIN tokens
    /\ wk[w].err = NoTokenError
    /\ StatusOf(w) = "failed"
    /\ events[wk[w].ev].last_error = NoTokenError
    /\ activities = EmptyTable /\ activity_streams = EmptyTable

\* the worker holds a fetched activity whose sport_type is not a ride type
NonRide(w) ==
  /\ wk[w].act # NoAct
  /\ wk[w].act.sport_type \notin {"Ride", "VirtualRide", "EBikeRide"}

\* C10: if the fetched activity's sport_type is not Ride, VirtualRide or
\* EBikeRide, the worker persists both snapshots, finalizes the event done,
\* and neither creates nor modifies an analysis record or a summary record.
C10_NonRideSkipsAnalysis ==
  [][\A w \in Workers :
       LET r == wk[w] IN
         /\ (NonRide(w) /\ r.pc = "persist" /\ wk'[w].pc \notin {"persist", "except"})
              => /\ wk'[w].pc = "finalize"
                 /\ activities'[events[r.ev].object_id].raw_json = r.act
                 /\ activity_streams'[events[r.ev].object_id] = r.act.id
         /\ (NonRide(w) /\ r.pc = "finalize" /\ wk'[w].pc # "finalize")
              => /\ wk'[w].pc = "poll"
                 /\ events'[r.ev].status = "done"
                 /\ activities'[events[r.ev].object_id].raw_json = r.act
                 /\ activity_streams'[events[r.ev].object_id] = r.act.id
         /\ (NonRide(w) /\ Holding(w) /\ wk'[w] # r)
              => UNCHANGED <<ride_analysis, progress_summaries>>]_vars

C10_Witness ==
  \E w \in Workers :
    /\ Finished(w)
    /\ NonRide(w)
    /\ cfg.ai
    /\ StatusOf(w) = "done"
    /\ Object(w) \in DOMAIN activities
    /\ activities[Object(w)].raw_json = wk[w].act
    /\ activity_streams[Object(w)] = wk[w].act.id

\* C11: if narrative generation fails for a ride event (the analyzer raises,
\* or the completion call inside it fails), the step leaves the analysis
\* table as it was, render and summarize are skipped, and the event is
\* finalized done.
C11_NarrativeFailureSkips ==
  [][\A w \in Workers :
       LET r == wk[w] IN
         /\ (r.pc = "analyze" /\ wk'[w].pc # "analyze"
               /\ (wk'[w].soft \ r.soft) \cap {"analysis", "narrative"} # {})
              => /\ UNCHANGED ride_analysis
                 /\ wk'[w].pc = "finalize"
         /\ (r.pc = "finalize" /\ wk'[w].pc = "poll"
               /\ r.soft \cap {"analysis", "narrative"} # {})
              => /\ events'[r.ev].status = "done"
                 /\ r.soft \cap {"render", "summary"} = {}]_vars

\* the rows a step changed in place
ChangedRows == {i \in 1..Len(events) : events'[i] # events[i]}

\* C12: the backfill reset for an athlete changes to queued exactly the rows
\* that are processing and owned by that athlete: every row the request
\* changes was processing and differs only in its status, now queued; the
\* changed rows have one owner, and no processing row of that owner is left.
C12_ResetScoped ==
  [][(wk' = wk /\ Len(events') = Len(events) /\ events' # events) =>
       /\ \A i \in ChangedRows :
            /\ events[i].status = "processing"
            /\ events'[i] = [events[i] EXCEPT !.status = "queued"]
       /\ \A i, j \in ChangedRows : events[i].owner_id = events[j].owner_id
       /\ \A i \in ChangedRows, j \in 1..Len(events) :
            (events[j].owner_id = events[i].owner_id /\ events[j].status = "processing")
              => j \in ChangedRows]_vars

C12_Witness ==
  \E i, j \in 1..Len(events) :
    /\ events[i].owner_id # events[j].owner_id
    /\ events[i].status = "queued" /\ events[i].last_error = ReportGenerated
    /\ events[j].status = "processing"
    /\ \A w \in Workers : wk[w].ev # j

\* the worker's current run has committed its snapshots
Persisted(w) ==
  \/ wk[w].pc \in {"analyze", "render", "summarize", "finalize"}
  \/ Finished(w) /\ wk[w].act # NoAct /\ wk[w].err = NULL

\* the worker's current run has saved its analysis record
Analyzed(w) ==
  \/ wk[w].pc \in {"render", "summarize"}
  \/ /\ wk[w].pc = "finalize" \/ Finished(w)
     /\ wk[w].act # NoAct /\ wk[w].err = NULL
     /\ AnalysisRuns(cfg, wk[w].act)
     /\ "analysis" \notin wk[w].soft

\* the worker's current run has saved its progress summary
Summarized(w) ==
  /\ wk[w].pc = "finalize" \/ Finished(w)
  /\ Analyzed(w)
  /\ cfg.summary
  /\ "summary" \notin wk[w].soft

\* C13: however many runs there were for an object identifier, each of the
\* four tables holds under that identifier the values written by the latest
\* run: the snapshots, the analysis record and the summary record of the run
\* that has just written them are the rows stored, also when an earlier run
\* had stored rows under the same identifier.
C13_LatestRunKept ==
  \A w \in Workers :
    LET r == wk[w]
        o == events[r.ev].object_id
    IN
      /\ Persisted(w) =>
           /\ o \in DOMAIN activities /\ activities[o].raw_json = r.act
           /\ activities[o].athlete_id = events[r.ev].owner_id
           /\ o \in DOMAIN activity_streams /\ activity_streams[o] = r.act.id
      /\ Analyzed(w) =>
           /\ o \in DOMAIN ride_analysis /\ ride_analysis[o].of = r.act.id
      /\ Summarized(w) =>
           /\ o \in DOMAIN progress_summaries
           /\ <<o, r.act.id>> \in progress_summaries[o].over

C13_Witness ==
  \E w \in Workers : \E e \in 1..Len(events) :
    /\ Finished(w) /\ Summarized(w)
    /\ e # wk[w].ev
    /\ events[e].object_id = Object(w)
    /\ events[e].status = "done" /\ events[e].last_error = ReportGenerated
    /\ ride_analysis[Object(w)].of = wk[w].act.id
    /\ <<Object(w), wk[w].act.id>> \in progress_summaries[Object(w)].over

\* no event row is held by two workers
DistinctEvents ==
  \A w1, w2 \in Workers : (w1 # w2 /\ wk[w1].ev # 0) => wk[w1].ev # wk[w2].ev

\* C14: after any interleaving of event processing by the workers, the
\* stored activity and stream snapshots of an object are those of the most
\* recent successful fetch for it: they are never older than the fetch of a
\* run that has persisted its snapshots and finished (fetches are numbered
\* in the order the API served them).
C14_SnapshotIsLatestFetch ==
  DistinctEvents =>
    \A w \in Workers :
      (Finished(w) /\ wk[w].act # NoAct /\ wk[w].err = NULL) =>
        /\ activities[Object(w)].raw_json.id >= wk[w].act.id
        /\ activity_streams[Object(w)] >= wk[w].act.id

\* C15: after any sequence of OAuth callbacks and token refreshes, the
\* tokens table holds for an athlete the token pair most recently issued for
\* that athlete: once the script is not between its request and its write,
\* the stored pair is not older than a pair the worker obtained for the
\* athlete by a refresh (pairs are numbered in the order they were issued).
C15_LatestPairStored ==
  script.pc = "idle" =>
    \A w \in Workers :
      \A i \in 1..Len(wk[w].calls) :
        (wk[w].calls[i].op = "refresh" /\ wk[w].calls[i].res = "ok") =>
          tokens[Owner(w)].access_token >= wk[w].calls[i].access

\* the last external call of the worker's run is a refresh that failed
RefreshFailed(r) ==
  /\ r.calls # <<>>
  /\ r.calls[Len(r.calls)].op = "refresh"
  /\ r.calls[Len(r.calls)].res = "err"

\* C16: if the token-refresh call fails while an event is processed, the
\* refresh is not retried, the stored credential is left unchanged, and the
\* event is finalized failed: the failing step changes neither the tokens
\* table nor the count of issued pairs and leads to the handler, and the
\* worker's next step makes no further call and marks the event failed.
C16_RefreshFailureFails ==
  [][\A w \in Workers :
       LET r == wk[w] IN
         /\ (Len(wk'[w].calls) = Len(r.calls) + 1 /\ RefreshFailed(wk'[w]))
              => /\ UNCHANGED <<tokens, issued>>
                 /\ wk'[w].pc = "except"
                 /\ wk'[w].err = RefreshError
         /\ (RefreshFailed(r) /\ r.pc # "poll" /\ wk'[w] # r)
              => /\ wk'[w].pc = "poll"
                 /\ wk'[w].calls = r.calls
                 /\ events'[r.ev].status = "failed"
                 /\ events'[r.ev].last_error = RefreshError
                 /\ UNCHANGED <<tokens, issued, fetched>>]_vars

C16_Witness ==
  \E w \in Workers :
    /\ Finished(w) /\ RefreshFailed(wk[w])
    /\ Len(wk[w].calls) = 2
    /\ StatusOf(w) = "failed"
    /\ events[wk[w].ev].last_error = RefreshError
    /\ tokens[Owner(w)] = wk[w].tok

\* C17: the input passed to the progress summarizer while an event is
\* processed consists of the analysis records of the event's owning account
\* only: every record the saved summary was made from is for an activity of
\* the event's owner.
C17_SummaryInputOwnAccount ==
  \A w \in Workers :
    Summarized(w) =>
      \A rec \in progress_summaries[Object(w)].over :
        /\ rec[1] \in DOMAIN activities
        /\ activities[rec[1]].athlete_id = Owner(w)

\* the suffix of the summarizer's input that starts after its first k records
SuffixAfter(k) == SubSeq(summ.analyses, k + 1, Len(summ.analyses))

\* the summarizer was called with reports whose formatted text exceeds the budget
OverBudget ==
  /\ summ.called
  /\ ~summ.raised
  /\ Len(FormatReportsChronological(summ.analyses)) > summ.max_chars

\* C18: when the formatted text of all reports exceeds the character budget,
\* the reports kept are the longest suffix of the chronological input list
\* whose formatted text fits the budget, and the text placed in the prompt is
\* the truncation notice followed by the formatted text of that suffix.
C18_TruncationKeepsLongestSuffix ==
  OverBudget =>
    \E k \in 0..Len(summ.analyses) :
      /\ Len(FormatReportsChronological(SuffixAfter(k))) <= summ.max_chars
      /\ \A j \in 0..(k - 1) :
           Len(FormatReportsChronological(SuffixAfter(j))) > summ.max_chars
      /\ summ.text = TruncationNotice \o FormatReportsChronological(SuffixAfter(k))

\* three reports were passed, the oldest was dropped and the two newest kept
C18_Witness ==
  /\ OverBudget
  /\ Len(summ.analyses) = 3
  /\ Len(FormatReportsChronological(SuffixAfter(1))) <= summ.max_chars
  /\ summ.text = TruncationNotice \o FormatReportsChronological(SuffixAfter(1))
  /\ SuffixAfter(1)[1] # SuffixAfter(1)[2]

\* C19: for every activity name, the sanitized file-name stem consists only
\* of alphanumeric characters and underscores, contains no two consecutive
\* underscores, neither starts nor ends with an underscore, and is at most
\* 50 characters long (and is not empty: an empty result is replaced by
\* "Ride").
C19_SanitizedStemWellFormed ==
  \A f \in DOMAIN files :
    LET stem == files[f].safe_name IN
      /\ stem # <<>>
      /\ Len(stem) <= NameLimit
      /\ \A i \in 1..Len(stem) : stem[i] \in Alnum \cup {"_"}
      /\ \A i \in 1..(Len(stem) - 1) : ~(stem[i] = "_" /\ stem[i + 1] = "_")
      /\ stem[1] # "_"
      /\ stem[Len(stem)] # "_"

\* C20: re-processing the same object identifier writes its Markdown report
\* to the same file path as the previous run, so the report directory holds
\* at most one report file per object identifier and prompt version.
C20_OneReportPerObject ==
  \A f, g \in DOMAIN files :
    (/\ files[f].object_id = files[g].object_id
     /\ files[f].safe_version = files[g].safe_version) => f = g

C22_HeartbeatEveryIteration ==
  [][\A w \in Workers :
       (wk[w].pc \in {"finalize", "except"} /\ wk'[w].pc = "poll")
         => now' - beat'[w] < HEARTBEAT_SECONDS]_vars

\* C23: with a single worker and no resets, events are claimed in insertion
\* order: the event a worker claims has the smallest id of the events that
\* are queued when it is claimed.
C23_ClaimedInInsertionOrder ==
  [][\A w \in Workers :
       (wk[w].pc = "claim" /\ wk'[w].pc = "token")
         => \A b \in QueuedIds(events) : wk[w].ev <= b]_vars

\* C24: one call of the activity client's request helper sends at most two
\* HTTP requests; the second is sent only if the first response has status
\* 429, after the fixed wait; and the response the caller gets (returned, or
\* raised for an error status) is the last one received, whatever it is.
C24_RetryOnceOnRateLimit ==
  /\ req.sent <= 2
  /\ req.sent = 2 => (req.server[1] = 429 /\ req.slept = RETRY_WAIT_SECONDS)
  /\ req.sent < 2 => req.slept = 0
  /\ req.pc = "done" =>
       /\ req.sent = (IF req.server[1] = 429 THEN 2 ELSE 1)
       /\ req.result.status = req.server[req.sent]
       /\ req.result.raised = (req.server[req.sent] # 200)

\* the call was answered 429 twice (or 429 and then 401) and has raised the
\* second response
C24_Witness ==
  /\ req.pc = "done"
  /\ req.sent = 2
  /\ req.server[2] \in {429, 401}
  /\ req.result = [raised |-> TRUE, status |-> req.server[2]]

\* C25: every token-refresh call the worker makes uses the refresh token
\* currently stored for the account: when a proactive refresh and a
\* 401-triggered refresh both occur while one event is processed, the second
\* call uses the refresh token the first one returned (and stored).
C25_RefreshUsesStoredToken ==
  \A w \in Workers :
    LET c == wk[w].calls IN
      \A i, j \in RefreshIdx(c) :
        (i < j /\ c[i].res = "ok") => c[j].with = c[i].access

\* C26: the activity snapshot and the stream snapshot of an event are
\* committed together: after the event is finalized, either both snapshots
\* are the ones written from this event's fetch or neither was written by
\* it; an event finalized failed because persistence failed part-way leaves
\* no snapshot written by it.
C26_SnapshotsCommittedTogether ==
  \A w \in Workers :
    (Finished(w) /\ wk[w].act # NoAct) =>
      LET activity_written ==
            /\ Object(w) \in DOMAIN activities
            /\ activities[Object(w)].raw_json = wk[w].act
          streams_written ==
            /\ Object(w) \in DOMAIN activity_streams
            /\ activity_streams[Object(w)] = wk[w].act.id
      IN /\ activity_written <=> streams_written
         /\ wk[w].err = PersistError => ~activity_written

\* every event is done or failed and the worker is at the top of its loop
Drained ==
  /\ \A e \in EventIds : events[e].status \in {"done", "failed"}
  /\ wk[1].pc = "poll"

\* C27: with one worker that does not crash, external calls that always
\* return, and finitely many enqueued events, every enqueued event eventually
\* reaches status done or failed, after which the worker only polls and
\* sleeps.
C27_EveryEventFinalized == <>[]Drained

\* all the deliveries were made and handled, one to done and one to failed
C27_Witness ==
  /\ Drained
  /\ Len(events) = MaxDeliveries
  /\ \E e \in EventIds : events[e].status = "done"
  /\ \E e \in EventIds : events[e].status = "failed"

\* C28: for every event with status done, last_error is empty or is a render
\* note (report_generated: or report_generation_failed:); a done event never
\* carries the message of a hard failure, under any interleaving of one or
\* more workers.
C28_DoneHasNoFailureMessage ==
  \A e \in EventIds :
    events[e].status = "done" =>
      events[e].last_error \in {NULL, ReportGenerated, ReportFailed}

\* C29: truncation always retains at least the most recent report: for any
\* non-empty list of reports and any character budget, the text placed in
\* the prompt is never the truncation notice with zero reports after it.
C29_NewestReportRetained ==
  (summ.called /\ ~summ.raised /\ summ.analyses # <<>>) =>
    /\ summ.text # TruncationNotice
    /\ OverBudget =>
         \E k \in 0..(Len(summ.analyses) - 1) :
           summ.text = TruncationNotice \o FormatReportsChronological(SuffixAfter(k))

\* C30: every ride_analysis row and progress_summaries row written by the
\* worker has athlete_id equal to the owner_id of the event that produced it,
\* so a report read scoped to the owner finds the record and a read scoped
\* to any other athlete does not.
C30_RecordsCarryOwner ==
  \A w \in Workers :
    /\ Analyzed(w) =>
         /\ ride_analysis[Object(w)].athlete_id = Owner(w)
         /\ ScopedRead(ride_analysis, Object(w), Owner(w)) # {}
         /\ \A a \in Athletes \ {Owner(w)} :
              ScopedRead(ride_analysis, Object(w), a) = {}
    /\ Summarized(w) =>
         /\ progress_summaries[Object(w)].athlete_id = Owner(w)
         /\ ScopedRead(progress_summaries, Object(w), Owner(w)) # {}
         /\ \A a \in Athletes \ {Owner(w)} :
              ScopedRead(progress_summaries, Object(w), a) = {}

====
